---- MODULE Spec2Model ----
(***************************************************************************)
(* State-machine model of the broCoachme HTTP API (src/main.py,            *)
(* src/schemas.py).  The document store is the only shared state.  Every   *)
(* store call (find_one, insert, update_one) is one atomic step; a handler *)
(* that makes two store calls is two steps, so that requests served by     *)
(* different workers interleave between the calls and a handler can fail   *)
(* between its two writes.                                                 *)
(***************************************************************************)
EXTENDS Integers, Sequences, FiniteSets, TLC

VARIABLES coach, client, invite, activity, program, session, note,
          nextOid, clock, pc, req, last,
          returnedClients, returnedSessions, counted, loginReturned, loginPairs

store == <<coach, client, invite, activity, program, session, note, nextOid>>
hist  == <<returnedClients, returnedSessions, counted, loginReturned, loginPairs>>
vars  == <<coach, client, invite, activity, program, session, note,
           nextOid, clock, pc, req, last,
           returnedClients, returnedSessions, counted, loginReturned, loginPairs>>

(* ------------------------------ bounds -------------------------------- *)
\* documents the store may hold in total (one ObjectId each)
MaxDocs == 3
\* length of the hexadecimal text of an ObjectId (24 in bson)
IdLen == 2

\* two requests in flight at a time
Procs == {"r1", "r2"}

None == "None"
\* None in a field that otherwise holds the text of an id
NoneId == <<None>>

(* ------------------------------ strings ------------------------------- *)
\* a string is a sequence of one-character strings
Lower(ch) == CASE ch = "A" -> "a" [] ch = "B" -> "b" [] OTHER -> ch
Upper(ch) == CASE ch = "a" -> "A" [] ch = "b" -> "B" [] OTHER -> ch
ToUpper(s) == [i \in 1..Len(s) |-> Upper(s[i])]

HexLower == <<"0", "1", "2", "3", "4", "5", "6", "7", "8", "9",
              "a", "b", "c", "d", "e", "f">>
HexChars == {HexLower[i] : i \in 1..16} \cup {"A", "B"}
HexVal(ch) == CHOOSE v \in 0..15 : HexLower[v + 1] = Lower(ch)

\* bson.ObjectId(text): 24 hexadecimal characters of either case, anything
\* else raises InvalidId.  The value is the bytes, kept here as nibbles.
ObjectIdValid(s) == Len(s) = IdLen /\ \A i \in 1..Len(s) : s[i] \in HexChars
ObjectId(s) == [i \in 1..IdLen |-> HexVal(s[i])]
\* str(ObjectId): the lower-case hexadecimal text
Str(oid) == [i \in 1..IdLen |-> HexLower[oid[i] + 1]]
\* the n-th ObjectId the store generates: increasing in generation order
NewOid(n) == [i \in 1..IdLen |-> IF i = IdLen THEN n ELSE 10]
OidLess(a, b) == \E i \in 1..IdLen : a[i] < b[i] /\ \A j \in 1..(i - 1) : a[j] = b[j]

\* payload.email.split("@")[0].title()
Title(s) == [i \in 1..Len(s) |-> IF i = 1 THEN Upper(s[i]) ELSE Lower(s[i])]

(* --------------------------- request inputs --------------------------- *)
Emails == {[local |-> <<"a">>, domain |-> "b.com"],
           [local |-> <<"b">>, domain |-> "b.com"]}
CoachIds == {"c1", "c2"}
Names == {<<"A", "b">>, <<"b">>}
\* q of GET /clients: absent, empty, letters, a regex wildcard, a broken regex
NoQuery == [given |-> FALSE, text |-> <<>>]
Queries == {NoQuery} \cup
           {[given |-> TRUE, text |-> t] : t \in {<<>>, <<"a">>, <<"a", "B">>, <<".">>, <<"(">>}}
\* a well-formed id the store never generates, and two malformed ones
GhostId == [i \in 1..IdLen |-> "f"]
BadId == [i \in 1..IdLen |-> "z"]
ShortId == <<"a">>

(* ----------------------------- sequences ------------------------------ *)
Range(s) == {s[i] : i \in 1..Len(s)}
RECURSIVE SelectSeqBy(_, _)
RECURSIVE SortSet(_, _)
RECURSIVE ByOccurredAtDesc(_)
SelectSeqBy(s, keep) ==
    IF s = <<>> THEN <<>>
    ELSE (IF Head(s) \in keep THEN <<Head(s)>> ELSE <<>>) \o SelectSeqBy(Tail(s), keep)
\* documents of a collection that satisfy a filter, in natural order
Find(coll, keep) == SelectSeqBy(coll, keep)
\* cursor.sort("_id", dir): _id is unique, the order is total
SortSet(S, dir) ==
    IF S = {} THEN <<>>
    ELSE LET first == CHOOSE x \in S : \A y \in S \ {x} :
                          IF dir = 1 THEN OidLess(x._id, y._id) ELSE OidLess(y._id, x._id)
         IN  <<first>> \o SortSet(S \ {first}, dir)
SortById(docs, dir) == SortSet(Range(docs), dir)
\* cursor.sort("occurred_at", -1): documents of equal occurred_at come in an
\* order the store does not fix, so this is the set of orders it may give
ByOccurredAtDesc(S) ==
    IF S = {} THEN {<<>>}
    ELSE UNION {{<<x>> \o t : t \in ByOccurredAtDesc(S \ {x})} :
                   x \in {m \in S : \A y \in S : m.occurred_at >= y.occurred_at}}
Prefix(s, n) == IF Len(s) <= n THEN s ELSE SubSeq(s, 1, n)
\* c["_id"] = str(c["_id"])
Stringify(docs) == [i \in 1..Len(docs) |-> [docs[i] EXCEPT !._id = Str(@)]]

(* ------------------------- store adapter ------------------------------ *)
\* create_document(collection, record): insert, return str(inserted_id)
CanInsert == nextOid < MaxDocs
NewDoc(data) == [_id |-> NewOid(nextOid)] @@ data
NewId == Str(NewOid(nextOid))

\* a slot that serves no request
NoReq == [op |-> "none"]
\* the HTTP status a handler answers with: the last one given is kept in `last`
Answer(op, status) == status

Init ==
    /\ coach = <<>> /\ client = <<>> /\ invite = <<>> /\ activity = <<>>
    /\ program = <<>> /\ session = <<>> /\ note = <<>>
    /\ nextOid = 0 /\ clock = 0
    /\ pc = [r \in Procs |-> "idle"]
    /\ req = [r \in Procs |-> NoReq]
    /\ last = Answer("none", 0)
    /\ returnedClients = {} /\ returnedSessions = {} /\ counted = {}
    /\ loginReturned = [e \in Emails |-> {}]
    /\ loginPairs = {}

(* ------------------------- POST /auth/login --------------------------- *)
CoachDoc(email) == [email |-> email, name |-> Title(email.local),
                    password |-> None, avatar_url |-> None]

\* return LoginResponse(success=True, coach_id=coach_id, ...).  loginPairs
\* keeps, for every login that had returned before this one began, the two
\* coach_ids and whether this one created a Coach.
LoginReturn(r, email, prior, id, created) ==
    /\ pc' = [pc EXCEPT ![r] = "idle"]
    /\ req' = [req EXCEPT ![r] = NoReq]
    /\ last' = Answer("login", 200)
    /\ loginReturned' = [loginReturned EXCEPT ![email] = @ \cup {id}]
    /\ loginPairs' = loginPairs \cup
           {[first |-> f, second |-> id, created |-> created] : f \in prior}

\* db["coach"].find_one({"email": email}): any one of the coaches with the email
FindOneByEmail(email) == {d \in Range(coach) : d.email = email}

\* the find_one of login; an existing coach answers at once
LoginFind(r, email) ==
    /\ pc[r] = "idle"
    /\ IF FindOneByEmail(email) # {}
       THEN \E d \in FindOneByEmail(email) :
                LoginReturn(r, email, loginReturned[email], Str(d._id), FALSE)
       ELSE /\ pc' = [pc EXCEPT ![r] = "login_insert"]
            /\ req' = [req EXCEPT ![r] = [op |-> "login", email |-> email,
                                          prior |-> loginReturned[email]]]
            /\ UNCHANGED <<last, loginReturned, loginPairs>>
    /\ UNCHANGED <<store, clock, returnedClients, returnedSessions, counted>>

\* create_document("coach", Coach(**coach))
LoginInsert(r) ==
    /\ pc[r] = "login_insert"
    /\ CanInsert
    /\ coach' = Append(coach, NewDoc(CoachDoc(req[r].email)))
    /\ nextOid' = nextOid + 1
    /\ LoginReturn(r, req[r].email, req[r].prior, NewId, TRUE)
    /\ UNCHANGED <<client, invite, activity, program, session, note, clock,
                   returnedClients, returnedSessions, counted>>

\* a handler stopped between its two store calls (store error, worker killed)
Fail(r) ==
    /\ pc[r] # "idle"
    /\ pc' = [pc EXCEPT ![r] = "idle"]
    /\ req' = [req EXCEPT ![r] = NoReq]
    /\ last' = Answer(req[r].op, 500)
    /\ UNCHANGED <<store, clock, hist>>

(* --------------------------- POST /clients ---------------------------- *)
ClientDoc(coach_id, name) ==
    [coach_id |-> coach_id, name |-> name, email |-> None, status |-> "Active",
     notes |-> None, last_activity |-> None]

ClientActivityDocByName(coach_id, client_id, name, at) ==
    [coach_id |-> coach_id, client_id |-> name, type |-> "client",
     message |-> <<"Added client ", name>>, occurred_at |-> at]
\* Activity(coach_id=..., client_id=client_id, type="client", message=f"Added client {name}")
ClientActivityDoc(coach_id, client_id, name, at) ==
    [coach_id |-> coach_id, client_id |-> client_id, type |-> "client",
     message |-> <<"Added client ", name>>, occurred_at |-> at]

\* datetime.utcnow() read when the Activity is built: never behind an earlier read
Now == {clock, clock + 1}

\* create_document("client", Client(coach_id=coach_id, **payload))
AddClientInsert(r, c, name) ==
    /\ pc[r] = "idle"
    /\ CanInsert
    /\ client' = Append(client, NewDoc(ClientDoc(c, name)))
    /\ nextOid' = nextOid + 1
    /\ req' = [req EXCEPT ![r] = [op |-> "add_client", coach_id |-> c, name |-> name,
                                  client_id |-> NewId]]
    /\ pc' = [pc EXCEPT ![r] = "client_activity"]
    /\ UNCHANGED <<coach, invite, activity, program, session, note, clock, last, hist>>

\* create_document("activity", Activity(...)); return {"success", "client_id"}
AddClientActivity(r) ==
    /\ pc[r] = "client_activity"
    /\ CanInsert
    /\ \E at \in Now :
        /\ activity' = Append(activity,
               NewDoc(ClientActivityDoc(req[r].coach_id, req[r].client_id, req[r].name, at)))
        /\ clock' = at
    /\ nextOid' = nextOid + 1
    /\ pc' = [pc EXCEPT ![r] = "idle"]
    /\ req' = [req EXCEPT ![r] = NoReq]
    /\ last' = Answer(req[r].op, 200)
    /\ returnedClients' = returnedClients \cup
           {[coach_id |-> req[r].coach_id, client_id |-> req[r].client_id]}
    /\ UNCHANGED <<coach, client, invite, program, session, note,
                   returnedSessions, counted, loginReturned, loginPairs>>

(* --------------------------- POST /invites ---------------------------- *)
InviteDoc(coach_id, email) ==
    [coach_id |-> coach_id, email |-> email, message |-> None, status |-> "sent"]

PlainActivityDoc(coach_id, type, text, at) ==
    [coach_id |-> coach_id, client_id |-> NoneId, type |-> type,
     message |-> text, occurred_at |-> at]

SendInviteInsert(r, c, email) ==
    /\ pc[r] = "idle"
    /\ CanInsert
    /\ invite' = Append(invite, NewDoc(InviteDoc(c, email)))
    /\ nextOid' = nextOid + 1
    /\ req' = [req EXCEPT ![r] = [op |-> "send_invite", coach_id |-> c, email |-> email,
                                  invite_id |-> NewId]]
    /\ pc' = [pc EXCEPT ![r] = "invite_activity"]
    /\ UNCHANGED <<coach, client, activity, program, session, note, clock, last, hist>>

SendInviteActivity(r) ==
    /\ pc[r] = "invite_activity"
    /\ CanInsert
    /\ \E at \in Now :
        /\ activity' = Append(activity,
               NewDoc(PlainActivityDoc(req[r].coach_id, "invite",
                                       <<"Invite sent to ", req[r].email>>, at)))
        /\ clock' = at
    /\ nextOid' = nextOid + 1
    /\ pc' = [pc EXCEPT ![r] = "idle"]
    /\ req' = [req EXCEPT ![r] = NoReq]
    /\ last' = Answer(req[r].op, 200)
    /\ UNCHANGED <<coach, client, invite, program, session, note, hist>>

(* --------------------------- POST /programs --------------------------- *)
ProgramDoc(coach_id, title) ==
    [coach_id |-> coach_id, title |-> title, description |-> None, sessions_count |-> 0]

CreateProgramInsert(r, c, title) ==
    /\ pc[r] = "idle"
    /\ CanInsert
    /\ program' = Append(program, NewDoc(ProgramDoc(c, title)))
    /\ nextOid' = nextOid + 1
    /\ req' = [req EXCEPT ![r] = [op |-> "create_program", coach_id |-> c, title |-> title,
                                  program_id |-> NewId]]
    /\ pc' = [pc EXCEPT ![r] = "program_activity"]
    /\ UNCHANGED <<coach, client, invite, activity, session, note, clock, last, hist>>

CreateProgramActivity(r) ==
    /\ pc[r] = "program_activity"
    /\ CanInsert
    /\ \E at \in Now :
        /\ activity' = Append(activity,
               NewDoc(PlainActivityDoc(req[r].coach_id, "program",
                                       <<"Created program ", req[r].title>>, at)))
        /\ clock' = at
    /\ nextOid' = nextOid + 1
    /\ pc' = [pc EXCEPT ![r] = "idle"]
    /\ req' = [req EXCEPT ![r] = NoReq]
    /\ last' = Answer(req[r].op, 200)
    /\ UNCHANGED <<coach, client, invite, program, session, note, hist>>

(* -------------------- POST /programs/{id}/sessions -------------------- *)
SessionDoc(coach_id, program_id, title) ==
    [coach_id |-> coach_id, program_id |-> program_id, title |-> title]

IncByTwo(doc) == [doc EXCEPT !.sessions_count = @ + 2]
\* {"$inc": {"sessions_count": 1}}
IncSessionsCount(doc) == [doc EXCEPT !.sessions_count = @ + 1]

\* update_one({"_id": oid}, update): the first document with that _id, if any
UpdateOneById(coll, oid) ==
    [i \in 1..Len(coll) |-> IF coll[i]._id = oid THEN IncSessionsCount(coll[i]) ELSE coll[i]]

\* path ids a caller may use: a program's id as returned, the same id in
\* upper case, a well-formed id of no program, a malformed id
ProgramIdInputs ==
    {Str(p._id) : p \in Range(program)} \cup {ToUpper(Str(p._id)) : p \in Range(program)}
        \cup {GhostId, BadId}

AddSessionInsert(r, c, pid, title) ==
    /\ pc[r] = "idle"
    /\ CanInsert
    /\ session' = Append(session, NewDoc(SessionDoc(c, pid, title)))
    /\ nextOid' = nextOid + 1
    /\ req' = [req EXCEPT ![r] = [op |-> "add_session", coach_id |-> c, program_id |-> pid,
                                  session_id |-> NewId]]
    /\ pc' = [pc EXCEPT ![r] = "session_inc"]
    /\ UNCHANGED <<coach, client, invite, activity, program, note, clock, last, hist>>

\* bson.ObjectId(program_id) raises InvalidId on a malformed id, after the insert
AddSessionInc(r) ==
    /\ pc[r] = "session_inc"
    /\ pc' = [pc EXCEPT ![r] = "idle"]
    /\ req' = [req EXCEPT ![r] = NoReq]
    /\ IF ObjectIdValid(req[r].program_id)
       THEN LET oid == ObjectId(req[r].program_id)
                sid == ObjectId(req[r].session_id)
            IN  /\ program' = UpdateOneById(program, oid)
                /\ last' = Answer("add_session", 200)
                /\ returnedSessions' = returnedSessions \cup {sid}
                /\ counted' = IF \E p \in Range(program) : p._id = oid
                              THEN counted \cup {sid} ELSE counted
       ELSE /\ last' = Answer("add_session", 500)
            /\ UNCHANGED <<program, returnedSessions, counted>>
    /\ UNCHANGED <<coach, client, invite, activity, session, note, nextOid, clock,
                   returnedClients, loginReturned, loginPairs>>

(* --------------------- POST /clients/{id}/notes ----------------------- *)
NoteDoc(coach_id, client_id, content) ==
    [coach_id |-> coach_id, client_id |-> client_id, content |-> content]

NoCheck(body_id, path_id) == TRUE
\* payload.client_id != client_id compares the two texts
NoteIdsMatch(body_id, path_id) == body_id = path_id

\* path ids a caller may use, and the body ids sent with path id p: the same
\* text, the same id in upper case, another id
ClientIdInputs == {Str(d._id) : d \in Range(client)} \cup {GhostId}
BodyIdInputs(p) == {p, ToUpper(p), GhostId}
NoteCoachIds == {"c1"}

AddNote(r, c, path_id, body_id) ==
    /\ pc[r] = "idle"
    /\ UNCHANGED <<pc, req, coach, client, invite, activity, program, session, clock, hist>>
    /\ IF ~NoteIdsMatch(body_id, path_id)
       THEN /\ last' = Answer("add_note", 400)
            /\ UNCHANGED <<note, nextOid>>
       ELSE /\ CanInsert
            /\ note' = Append(note, NewDoc(NoteDoc(c, path_id, "text")))
            /\ nextOid' = nextOid + 1
            /\ last' = Answer("add_note", 200)

(* ------------------------------ reads --------------------------------- *)
\* {"$regex": q, "$options": "i"}: q is a pattern, searched anywhere in the
\* name, letters compared without case; "." stands for any character and an
\* unbalanced "(" is a pattern the store refuses.  Patterns here are made of
\* letters, "." and "(".
RegexValid(pat) == \A i \in 1..Len(pat) : pat[i] # "("
RegexSearch(pat, s) ==
    \E start \in 1..(Len(s) - Len(pat) + 1) :
        \A i \in 1..Len(pat) : pat[i] = "." \/ Lower(pat[i]) = Lower(s[start + i - 1])

NoFilter(doc, c) == TRUE
\* {"coach_id": coach_id}
CoachFilter(doc, c) == doc.coach_id = c

\* `if q:` is false for an absent and for an empty q
Truthy(q) == q.given /\ q.text # <<>>

\* GET /clients(coach_id, q) on a client collection
ListClientsLimit(coll, c, q) ==
    IF Truthy(q) /\ ~RegexValid(q.text)
    THEN [status |-> 500, body |-> <<>>]
    ELSE LET keep == {d \in Range(coll) :
                         CoachFilter(d, c) /\ (Truthy(q) => RegexSearch(q.text, d.name))}
         IN  [status |-> 200, body |-> Stringify(Prefix(SortById(Find(coll, keep), -1), 1))]
ListClientsIn(coll, c, q) ==
    IF Truthy(q) /\ ~RegexValid(q.text)
    THEN [status |-> 500, body |-> <<>>]
    ELSE LET keep == {d \in Range(coll) :
                         CoachFilter(d, c) /\ (Truthy(q) => RegexSearch(q.text, d.name))}
         IN  [status |-> 200, body |-> Stringify(SortById(Find(coll, keep), -1))]
ListClients(c, q) == ListClientsIn(client, c, q)

\* GET /programs(coach_id) on a program collection
ListProgramsIn(coll, c) ==
    LET keep == {d \in Range(coll) : CoachFilter(d, c)}
    IN  [status |-> 200, body |-> Stringify(SortById(Find(coll, keep), -1))]
ListPrograms(c) == ListProgramsIn(program, c)

\* .limit(5)
ActivityLimit == 5
\* find({"coach_id": c}).sort("occurred_at", -1).limit(5): the results the
\* store may give
RecentActivityIn(coll, c) ==
    {Stringify(Prefix(f, ActivityLimit)) :
        f \in ByOccurredAtDesc({d \in Range(coll) : CoachFilter(d, c)})}
RecentActivity(c) == RecentActivityIn(activity, c)

\* count_documents({"coach_id": c})
TotalClientsIn(coll, c) == Cardinality({d \in Range(coll) : CoachFilter(d, c)})
TotalClients(c) == TotalClientsIn(client, c)

\* GET /dashboard/summary(coach_id): the results it may give
DashboardSummary(c) ==
    {[status |-> 200, total_clients |-> TotalClients(c), recent_activity |-> ra,
      quick_actions |-> <<"Add Client", "Create Program">>] : ra \in RecentActivity(c)}

\* find({"program_id": program_id}).sort("_id", 1): the text of the path is
\* compared with the text stored in the Session
GetProgramSessionsDesc(pid) ==
    SortById(Find(session, {d \in Range(session) : d.program_id = pid}), -1)
GetProgramSessions(pid) ==
    SortById(Find(session, {d \in Range(session) : d.program_id = pid}), 1)

\* GET /programs/{program_id}
GetProgram(pid) ==
    IF ~ObjectIdValid(pid)
    THEN [status |-> 500, detail |-> "InvalidId"]
    ELSE LET found == {d \in Range(program) : d._id = ObjectId(pid)}
         IN  IF found = {}
             THEN [status |-> 404, detail |-> "Program not found"]
             ELSE [status |-> 200,
                   program |-> [(CHOOSE d \in found : TRUE) EXCEPT !._id = Str(@)],
                   sessions |-> Stringify(GetProgramSessions(pid))]

\* a GET handler changes nothing in the store
Read(op, status) ==
    /\ last' = Answer(op, status)
    /\ UNCHANGED <<store, clock, pc, req, hist>>

ListClientsRead == \E c \in CoachIds, q \in Queries : Read("list_clients", ListClients(c, q).status)
ListProgramsRead == \E c \in CoachIds : Read("list_programs", ListPrograms(c).status)
DashboardRead == \E c \in CoachIds : \E d \in DashboardSummary(c) : Read("dashboard_summary", d.status)
GetProgramRead == \E pid \in ProgramIdInputs \cup {ShortId} : Read("get_program", GetProgram(pid).status)

(* --------------------------- specifications --------------------------- *)
Login == \E r \in Procs, e \in Emails : LoginFind(r, e)
LoginCreate == \E r \in Procs : LoginInsert(r)
Failure == \E r \in Procs : Fail(r)
AddClient == \E r \in Procs, c \in CoachIds, n \in Names : AddClientInsert(r, c, n)
AddClientLog == \E r \in Procs : AddClientActivity(r)
SendInvite == \E r \in Procs, c \in CoachIds, e \in {CHOOSE x \in Emails : TRUE} : SendInviteInsert(r, c, e)
SendInviteLog == \E r \in Procs : SendInviteActivity(r)
CreateProgram == \E r \in Procs, c \in CoachIds : CreateProgramInsert(r, c, "plan")
CreateProgramLog == \E r \in Procs : CreateProgramActivity(r)
AddSession == \E r \in Procs, c \in {"c1"}, pid \in ProgramIdInputs : AddSessionInsert(r, c, pid, "day")
AddSessionCount == \E r \in Procs : AddSessionInc(r)
AddNoteReq ==
    \E r \in Procs, c \in NoteCoachIds, p \in ClientIdInputs :
        \E b \in BodyIdInputs(p) : AddNote(r, c, p, b)

\* the whole API
Next ==
    \/ Login \/ LoginCreate
    \/ AddClient \/ AddClientLog
    \/ SendInvite \/ SendInviteLog
    \/ CreateProgram \/ CreateProgramLog
    \/ AddSession \/ AddSessionCount
    \/ AddNoteReq
    \/ ListClientsRead \/ ListProgramsRead \/ DashboardRead \/ GetProgramRead
    \/ Failure

Spec == Init /\ [][Next]_vars

\* the handlers that touch the coach collection
NextAuth == Login \/ LoginCreate \/ Failure
SpecAuth == Init /\ [][NextAuth]_vars

\* the handlers that touch the program and session collections
NextPrograms ==
    \/ CreateProgram \/ CreateProgramLog \/ AddSession \/ AddSessionCount
    \/ GetProgramRead \/ Failure
SpecPrograms == Init /\ [][NextPrograms]_vars

\* the handlers that touch the client and note collections
NextClients == AddClient \/ AddClientLog \/ AddNoteReq \/ ListClientsRead \/ Failure
SpecClients == Init /\ [][NextClients]_vars

\* the handlers behind the per-coach listings and the dashboard
NextListings ==
    \/ AddClient \/ AddClientLog
    \/ CreateProgram \/ CreateProgramLog
    \/ ListClientsRead \/ ListProgramsRead \/ DashboardRead \/ Failure
SpecListings == Init /\ [][NextListings]_vars

(* ------------------------------ claims -------------------------------- *)
\* the Sessions created under program p: the path id of add_session is read
\* as an ObjectId, so the id counts in either case
SessionsOf(p) ==
    {d \in Range(session) : ObjectIdValid(d.program_id) /\ ObjectId(d.program_id) = p._id}

\* C1 as stated: in every reachable state every Program's sessions_count equals
\* the number of Sessions created with program_id equal to its identifier.
C1_CountEqualsSessions ==
    \A p \in Range(program) :
        p.sessions_count = Cardinality({d \in Range(session) : d.program_id = Str(p._id)})

C1_CountInv ==
    \A p \in Range(program) :
        /\ p.sessions_count = Cardinality({d \in SessionsOf(p) : d._id \in counted})
        /\ p.sessions_count <= Cardinality(SessionsOf(p))
C1_Monotone ==
    \A i \in 1..Len(program) : program'[i].sessions_count >= program[i].sessions_count
\* C1 amended: in every reachable state every Program's sessions_count equals
\* the number of Sessions created under it (path id read as an ObjectId) whose
\* add_session call has made its increment; so it never exceeds the number of
\* those Sessions, it starts at 0, and no step decreases it.
C1_CountOfIncrementedSessions == [](C1_CountInv) /\ [][C1_Monotone]_vars
\* a Program whose count is behind the Sessions created under it
C1_Witness ==
    \E p \in Range(program) :
        p.sessions_count >= 1 /\ Cardinality(SessionsOf(p)) > p.sessions_count

\* C2: GET /programs/{id} answers 404 for every id that identifies no
\* existing Program, whatever its form.
C2_MissingProgramIs404 ==
    \A pid \in ProgramIdInputs \cup {ShortId} :
        ~(ObjectIdValid(pid) /\ \E d \in Range(program) : d._id = ObjectId(pid))
            => GetProgram(pid).status = 404

\* C3: a POST /clients/{id}/notes whose body client_id differs from the path
\* client_id answers 400 and leaves every collection as it was.
MismatchingAddNote ==
    \E r \in Procs, c \in NoteCoachIds, p \in ClientIdInputs :
        \E b \in BodyIdInputs(p) : b # p /\ AddNote(r, c, p, b)
C3_MismatchRejectedNoWrite ==
    [][(last' = 400 /\ UNCHANGED store) \/ ~MismatchingAddNote]_vars
\* a mismatching add_note has been answered while a Client exists
C3_Witness == last = 400 /\ Len(client) >= 1

\* C4: of two logins with one email, the second begun after the first
\* returned, both return the same coach_id and the second creates no Coach.
C4_SequentialLoginsAgree ==
    \A pr \in loginPairs : pr.first = pr.second /\ ~pr.created

\* C5: a client_id returned by POST /clients(c) is in every later
\* GET /clients(c) without q.
C5_ReturnedClientListed ==
    \A rc \in returnedClients :
        LET res == ListClients(rc.coach_id, NoQuery)
        IN  res.status = 200 /\ \E i \in 1..Len(res.body) : res.body[i]._id = rc.client_id
\* an add_client call has returned and a second Client exists
C5_Witness == Cardinality(returnedClients) >= 1 /\ Len(client) >= 2

\* q is in s as a literal text, letters compared without case
Contains(q, s) ==
    \E start \in 1..(Len(s) - Len(q) + 1) :
        \A i \in 1..Len(q) : Lower(q[i]) = Lower(s[start + i - 1])
\* C6: GET /clients(c, q) returns exactly the Clients of c whose name contains
\* q as a literal substring, case-insensitively (stated here for the q that
\* the store accepts as a pattern).
C6_LiteralSubstringFilter ==
    \A c \in CoachIds, q \in {x \in Queries : x.given /\ RegexValid(x.text)} :
        LET res == ListClients(c, q)
        IN  /\ res.status = 200
            /\ {res.body[i]._id : i \in 1..Len(res.body)} =
                   {Str(d._id) : d \in {x \in Range(client) : x.coach_id = c /\ Contains(q.text, x.name)}}

\* the Sessions of p were all created by completed add_session calls that
\* used the id create_program returned
OnlyCompletedSessions(p) ==
    \A d \in SessionsOf(p) : d.program_id = Str(p._id) /\ d._id \in returnedSessions
\* C7: after a Program is created and N add_session calls for its returned id
\* have completed, with nothing else done to it, GET /programs/{id} gives
\* sessions_count = N and exactly those N Sessions in insertion order.
C7_CountAndSessionsAfterN ==
    \A p \in Range(program) :
        OnlyCompletedSessions(p) =>
            LET res == GetProgram(Str(p._id))
                mine == Find(session, SessionsOf(p))
            IN  /\ res.status = 200
                /\ res.program.sessions_count = Len(mine)
                /\ res.sessions = Stringify(mine)
\* a Program with two completed Sessions
C7_Witness ==
    \E p \in Range(program) : OnlyCompletedSessions(p) /\ Cardinality(SessionsOf(p)) = 2

\* the documents of a collection that coach c owns, in natural order
OwnedBy(coll, c) == Find(coll, {d \in Range(coll) : d.coach_id = c})
AllOwnedBy(docs, c) == \A i \in 1..Len(docs) : docs[i].coach_id = c
\* C8: GET /clients(c), GET /programs(c) and the recent_activity and
\* total_clients of GET /dashboard/summary(c) hold only documents whose
\* coach_id is c, and are what they would be were the other coaches'
\* documents not in the store.
C8_ListingsOwnedByCoach ==
    \A c \in CoachIds :
        /\ \A q \in Queries :
              /\ AllOwnedBy(ListClients(c, q).body, c)
              /\ ListClients(c, q) = ListClientsIn(OwnedBy(client, c), c, q)
        /\ AllOwnedBy(ListPrograms(c).body, c)
        /\ ListPrograms(c) = ListProgramsIn(OwnedBy(program, c), c)
        /\ \A ra \in RecentActivity(c) : AllOwnedBy(ra, c)
        /\ RecentActivity(c) = RecentActivityIn(OwnedBy(activity, c), c)
        /\ TotalClients(c) = Len(OwnedBy(client, c))
\* two coaches own Clients and one of them has an Activity
C8_Witness ==
    /\ \A c \in CoachIds : \E d \in Range(client) : d.coach_id = c
    /\ activity # <<>>

\* C9: every Activity of type "client" names an existing Client of the same
\* coach_id, in every reachable state.
C9_ClientActivityHasClient ==
    \A a \in Range(activity) :
        a.type = "client" =>
            \E d \in Range(client) : Str(d._id) = a.client_id /\ d.coach_id = a.coach_id
\* a Client with its Activity next to a Client that never got one
C9_Witness ==
    /\ \A r \in Procs : pc[r] = "idle"
    /\ \E a \in Range(activity) : a.type = "client"
    /\ \E d \in Range(client) : \A a \in Range(activity) : a.client_id # Str(d._id)

\* C10: at most one Coach per email exists and all logins with one email
\* return one coach_id, under any interleaving of logins.
C10_OneCoachPerEmail ==
    \A e \in Emails :
        /\ Cardinality({d \in Range(coach) : d.email = e}) <= 1
        /\ Cardinality(loginReturned[e]) <= 1
====
